---- MODULE Spec2Model ----
(***************************************************************************)
(* The output formatter of termplate-go (package output): a Formatter      *)
(* holds an OutputConfig and an io.Writer; Print renders a data value as   *)
(* text, JSON, YAML, CSV or one of three table styles.                     *)
(*                                                                         *)
(* A Go string is a sequence of runes, each rune a TLA+ string ("a", ",",  *)
(* "\n"); a rune outside ASCII carries a name ("U+250C").  A Go            *)
(* map[string]string is a sequence of <<key, value>> pairs with distinct   *)
(* keys, in the order the caller wrote the entries; the Go map itself      *)
(* keeps no order, so every range over it runs in an order the runtime     *)
(* picks.  Every write the formatter issues on its io.Writer is one step.  *)
(***************************************************************************)
EXTENDS Integers, Sequences, FiniteSets

VARIABLES config, writer, data, pc, renderer, order, table, colWidths, pending,
          ret, sink, budget, attempts, rejected, late,
          mutex, appConfig, valErr, authHeader

\* the callers' mutex, and the application Config with the results of its methods
others == <<mutex, appConfig, valErr, authHeader>>

vars == <<config, writer, data, pc, renderer, order, table, colWidths, pending,
          ret, sink, budget, attempts, rejected, late, others>>

----------------------------------------------------------------------------
(* Bounds of the model *)

\* most rows of a generated Grid, most records of a generated RecordList
MaxRows == 2
\* a sink that rejects writes accepts at most this many writes first
MaxBudget == 1
\* size in bytes of the buffer of the csv.Writer (bufio), scaled down
BufSize == 5

Calls == {1, 2}
Sinks == {1, 2}

\* budget of a sink that accepts every write
Healthy == -1

----------------------------------------------------------------------------
(* Strings *)

Repeat(r, n) == [i \in 1..n |-> r]

RECURSIVE Flatten(_)
Flatten(ss) == IF Len(ss) = 0 THEN <<>> ELSE Head(ss) \o Flatten(Tail(ss))

NonASCII == {"U+250C", "U+252C", "U+2510", "U+251C", "U+253C", "U+2524",
             "U+2514", "U+2534", "U+2518", "U+2502", "U+2500"}

\* runes of two bytes: e with acute accent
TwoByte == {"U+00E9"}

\* len(s): the number of bytes of the UTF-8 encoding
RECURSIVE GoLen(_)
GoLen(s) == IF Len(s) = 0 THEN 0
            ELSE (IF Head(s) \in NonASCII THEN 3
                  ELSE IF Head(s) \in TwoByte THEN 2 ELSE 1) + GoLen(Tail(s))

\* %*s in place of %-*s: the cell right-aligned
PadLeft(cell, w) == IF Len(cell) >= w THEN cell ELSE Repeat(" ", w - Len(cell)) \o cell

\* fmt's %-*s: left-aligned, padded with spaces to w runes, never cut
Pad(cell, w) == IF Len(cell) >= w THEN cell ELSE cell \o Repeat(" ", w - Len(cell))

sKey == <<"K", "e", "y">>
sValue == <<"V", "a", "l", "u", "e">>

----------------------------------------------------------------------------
(* Maps *)

Keys(m) == {m[i][1] : i \in 1..Len(m)}

\* m[k] of a Go map: the zero value "" when the key is missing
Lookup(m, k) == IF k \in Keys(m)
                THEN LET i == CHOOSE j \in 1..Len(m) : m[j][1] = k IN m[i][2]
                ELSE <<>>

\* the orders in which a range over a map of n entries can run
Perms(n) == {p \in [1..n -> 1..n] : \A i, j \in 1..n : p[i] = p[j] => i = j}

----------------------------------------------------------------------------
(* Tabular Normalizer *)

\* mapSliceToTable taking the first record for the header only
mapSliceToTableSkipFirst(recs, ord) ==
    IF Len(recs) = 0 THEN <<>>
    ELSE LET headers == [i \in 1..Len(ord) |-> recs[1][ord[i]][1]]
         IN  <<headers>> \o
             [r \in 1..(Len(recs) - 1) |->
                 [i \in 1..Len(headers) |-> Lookup(recs[r + 1], headers[i])]]

\* mapSliceToTable reading every row from the first record
mapSliceToTableFirst(recs, ord) ==
    IF Len(recs) = 0 THEN <<>>
    ELSE LET headers == [i \in 1..Len(ord) |-> recs[1][ord[i]][1]]
         IN  <<headers>> \o
             [r \in 1..Len(recs) |->
                 [i \in 1..Len(headers) |-> Lookup(recs[1], headers[i])]]

mapSliceToTable(recs, ord) ==
    IF Len(recs) = 0 THEN <<>>
    ELSE LET headers == [i \in 1..Len(ord) |-> recs[1][ord[i]][1]]
         IN  <<headers>> \o
             [r \in 1..Len(recs) |->
                 [i \in 1..Len(headers) |-> Lookup(recs[r], headers[i])]]

mapToTable(rec, ord) ==
    << <<sKey, sValue>> >> \o
    [i \in 1..Len(ord) |-> <<rec[ord[i]][1], rec[ord[i]][2]>>]

\* toTable with the default case rendering the value as a one-cell table
toTableFallback(d, ord) ==
    CASE d.shape = "Grid"         -> [err |-> FALSE, t |-> d.v]
      [] d.shape = "RecordList"   -> [err |-> FALSE, t |-> mapSliceToTable(d.v, ord)]
      [] d.shape = "SingleRecord" -> [err |-> FALSE, t |-> mapToTable(d.v, ord)]
      [] OTHER                    -> [err |-> FALSE, t |-> << <<d.v>> >>]

toTable(d, ord) ==
    CASE d.shape = "Grid"         -> [err |-> FALSE, t |-> d.v]
      [] d.shape = "RecordList"   -> [err |-> FALSE, t |-> mapSliceToTable(d.v, ord)]
      [] d.shape = "SingleRecord" -> [err |-> FALSE, t |-> mapToTable(d.v, ord)]
      [] OTHER                    -> [err |-> TRUE, t |-> <<>>]

\* the map a call ranges over, if any
RangedMap(d) ==
    CASE d.shape = "RecordList" /\ Len(d.v) > 0 -> d.v[1]
      [] d.shape = "SingleRecord"               -> d.v
      [] OTHER                                  -> <<>>

----------------------------------------------------------------------------
(* Column Width Calculator *)

Max(S) == CHOOSE x \in S : \A y \in S : y <= x

\* widths[i] with i >= len(table[0]): index out of range
WidthsPanic(t) == \E r \in 1..Len(t) : Len(t[r]) > Len(t[1])

calculateColumnWidths(t) ==
    IF Len(t) = 0 THEN <<>>
    ELSE [i \in 1..Len(t[1]) |->
             Max({0} \cup {GoLen(t[r][i]) : r \in {q \in 1..Len(t) : Len(t[q]) >= i}})]

----------------------------------------------------------------------------
(* Style renderers: the writes each issues, in order *)

\* printASCIIRow writing an empty cell for every column the row lacks
printASCIIRowFill(row, widths) ==
    << <<"|", " ">> >> \o
    [i \in 1..Len(widths) |->
        Pad(IF i <= Len(row) THEN row[i] ELSE <<>>, widths[i]) \o <<" ", "|", " ">>] \o
    << <<"\n">> >>

printASCIIRow(row, widths) ==
    << <<"|", " ">> >> \o
    [i \in 1..Len(row) |-> Pad(row[i], widths[i]) \o <<" ", "|", " ">>] \o
    << <<"\n">> >>

printASCIISeparator(widths) ==
    << <<"|">> >> \o
    [i \in 1..Len(widths) |-> Repeat("-", widths[i] + 2) \o <<"|">>] \o
    << <<"\n">> >>

\* printASCIITable returning early on a header without columns
printASCIITableSkipEmpty(t) ==
    IF Len(t) = 0 \/ Len(t[1]) = 0 THEN <<>>
    ELSE LET widths == calculateColumnWidths(t)
         IN  printASCIIRow(t[1], widths) \o
             printASCIISeparator(widths) \o
             Flatten([r \in 1..(Len(t) - 1) |-> printASCIIRow(t[r + 1], widths)])

\* printASCIITable writing the separator only when data rows follow
printASCIITableNoSep(t) ==
    IF Len(t) = 0 THEN <<>>
    ELSE LET widths == calculateColumnWidths(t)
         IN  printASCIIRow(t[1], widths) \o
             (IF Len(t) > 1 THEN printASCIISeparator(widths) ELSE <<>>) \o
             Flatten([r \in 1..(Len(t) - 1) |-> printASCIIRow(t[r + 1], widths)])

\* printASCIITable writing the separator after the data rows
printASCIITableSepLast(t) ==
    IF Len(t) = 0 THEN <<>>
    ELSE LET widths == calculateColumnWidths(t)
         IN  printASCIIRow(t[1], widths) \o
             Flatten([r \in 1..(Len(t) - 1) |-> printASCIIRow(t[r + 1], widths)]) \o
             printASCIISeparator(widths)

printASCIITable(t) ==
    IF Len(t) = 0 THEN <<>>
    ELSE LET widths == calculateColumnWidths(t)
         IN  printASCIIRow(t[1], widths) \o
             printASCIISeparator(widths) \o
             Flatten([r \in 1..(Len(t) - 1) |-> printASCIIRow(t[r + 1], widths)])

printUnicodeRow(row, widths) ==
    << <<"U+2502", " ">> >> \o
    [i \in 1..Len(row) |-> Pad(row[i], widths[i]) \o <<" ", "U+2502", " ">>] \o
    << <<"\n">> >>

printUnicodeBorder(widths, left, mid, right) ==
    << <<left>> >> \o
    Flatten([i \in 1..Len(widths) |->
                << Repeat("U+2500", widths[i] + 2) >> \o
                (IF i < Len(widths) THEN << <<mid>> >> ELSE <<>>)]) \o
    << <<right, "\n">> >>

printUnicodeTable(t) ==
    IF Len(t) = 0 THEN <<>>
    ELSE LET widths == calculateColumnWidths(t)
         IN  printUnicodeBorder(widths, "U+250C", "U+252C", "U+2510") \o
             printUnicodeRow(t[1], widths) \o
             printUnicodeBorder(widths, "U+251C", "U+253C", "U+2524") \o
             Flatten([r \in 1..(Len(t) - 1) |-> printUnicodeRow(t[r + 1], widths)]) \o
             printUnicodeBorder(widths, "U+2514", "U+2534", "U+2518")

printMarkdownRow(row, widths) ==
    << <<"|", " ">> >> \o
    [i \in 1..Len(row) |-> Pad(row[i], widths[i]) \o <<" ", "|", " ">>] \o
    << <<"\n">> >>

\* printMarkdownTable with strings.Repeat("-", w) in the separator row
printMarkdownTableNarrow(t) ==
    IF Len(t) = 0 THEN <<>>
    ELSE LET widths == calculateColumnWidths(t)
         IN  printMarkdownRow(t[1], widths) \o
             << <<"|">> >> \o
             [i \in 1..Len(widths) |-> Repeat("-", widths[i]) \o <<"|">>] \o
             << <<"\n">> >> \o
             Flatten([r \in 1..(Len(t) - 1) |-> printMarkdownRow(t[r + 1], widths)])

printMarkdownTable(t) ==
    IF Len(t) = 0 THEN <<>>
    ELSE LET widths == calculateColumnWidths(t)
         IN  printMarkdownRow(t[1], widths) \o
             << <<"|">> >> \o
             [i \in 1..Len(widths) |-> Repeat("-", widths[i] + 2) \o <<"|">>] \o
             << <<"\n">> >> \o
             Flatten([r \in 1..(Len(t) - 1) |-> printMarkdownRow(t[r + 1], widths)])

----------------------------------------------------------------------------
(* CSV: encoding/csv's Writer over a bufio.Writer of BufSize bytes *)

fieldNeedsQuotes(field) ==
    /\ Len(field) > 0
    /\ \/ \E i \in 1..Len(field) : field[i] \in {",", "\"", "\r", "\n"}
       \/ field[1] \in {" ", "\t"}
       \/ field = <<"\\", ".">>

csvField(field) ==
    IF fieldNeedsQuotes(field)
    THEN <<"\"">> \o
         Flatten([i \in 1..Len(field) |->
                     IF field[i] = "\"" THEN <<"\"", "\"">> ELSE <<field[i]>>]) \o
         <<"\"">>
    ELSE field

\* the bytes csv.Writer.Write(record) hands to its buffer
csvRecord(record) ==
    Flatten([i \in 1..Len(record) |->
                (IF i > 1 THEN <<",">> ELSE <<>>) \o csvField(record[i])]) \o
    <<"\n">>

RECURSIVE Blocks(_, _)
Blocks(bytes, n) ==
    IF Len(bytes) = 0 THEN <<>>
    ELSE IF Len(bytes) <= n THEN <<bytes>>
    ELSE <<SubSeq(bytes, 1, n)>> \o Blocks(SubSeq(bytes, n + 1, Len(bytes)), n)

\* The buffer is written to the sink whenever it is full and one more byte
\* arrives: writer.Write returns that write's error and printCSV returns it.
\* What is left in the buffer is written by the deferred Flush, which runs
\* after writer.Error() was read and whose result nobody reads.
printCSV(t) ==
    LET bytes == Flatten([r \in 1..Len(t) |-> csvRecord(t[r])])
        bl    == Blocks(bytes, BufSize)
    IN  [i \in 1..Len(bl) |->
            [text |-> bl[i], checked |-> i < Len(bl), err |-> "ErrWriteCSV"]]

----------------------------------------------------------------------------
(* Structured renderers and the text renderer *)

Alphabet == <<"\n", " ", "\"", ",", "0", "1", "2", "3", "4", "A", "B", "C", "H",
              "K", "V", "a", "b", "c", "d", "e", "g", "i", "k", "l", "m", "n",
              "o", "r", "u", "x", "y">>

Rank(ch) == CHOOSE i \in 1..Len(Alphabet) : Alphabet[i] = ch

RECURSIVE Less(_, _)
Less(a, b) ==
    IF Len(b) = 0 THEN FALSE
    ELSE IF Len(a) = 0 THEN TRUE
    ELSE IF Head(a) = Head(b) THEN Less(Tail(a), Tail(b))
    ELSE Rank(Head(a)) < Rank(Head(b))

\* the entries of a map in ascending key order, as json, yaml and fmt emit them
SortedMap(m) ==
    LET p == CHOOSE q \in Perms(Len(m)) :
                 \A i, j \in 1..Len(m) : i < j => Less(m[q[i]][1], m[q[j]][1])
    IN  [i \in 1..Len(m) |-> m[p[i]]]

Join(items, sep) ==
    Flatten([i \in 1..Len(items) |-> (IF i > 1 THEN sep ELSE <<>>) \o items[i]])

jsonString(s) ==
    <<"\"">> \o
    Flatten([i \in 1..Len(s) |->
                CASE s[i] = "\"" -> <<"\\", "\"">>
                  [] s[i] = "\\" -> <<"\\", "\\">>
                  [] s[i] = "\n" -> <<"\\", "n">>
                  [] OTHER       -> <<s[i]>>]) \o
    <<"\"">>

\* a JSON array or object of already encoded items at nesting depth lvl
jsonGroup(open, close, items, lvl, pretty) ==
    IF Len(items) = 0 THEN <<open, close>>
    ELSE IF pretty
    THEN <<open, "\n">> \o Repeat(" ", 2 * (lvl + 1)) \o
         Join(items, <<",", "\n">> \o Repeat(" ", 2 * (lvl + 1))) \o
         <<"\n">> \o Repeat(" ", 2 * lvl) \o <<close>>
    ELSE <<open>> \o Join(items, <<",">>) \o <<close>>

jsonMap(m, lvl, pretty) ==
    LET sm == SortedMap(m)
    IN  jsonGroup("{", "}",
            [i \in 1..Len(sm) |->
                jsonString(sm[i][1]) \o (IF pretty THEN <<":", " ">> ELSE <<":">>) \o
                jsonString(sm[i][2])],
            lvl, pretty)

jsonRow(row, lvl, pretty) ==
    jsonGroup("[", "]", [i \in 1..Len(row) |-> jsonString(row[i])], lvl, pretty)

\* json.Marshal / json.MarshalIndent(data, "", "  ")
jsonMarshal(d, pretty) ==
    CASE d.shape = "SingleRecord" -> [err |-> FALSE, out |-> jsonMap(d.v, 0, pretty)]
      [] d.shape = "RecordList" ->
            [err |-> FALSE,
             out |-> jsonGroup("[", "]",
                        [i \in 1..Len(d.v) |-> jsonMap(d.v[i], 1, pretty)], 0, pretty)]
      [] d.shape = "Grid" ->
            [err |-> FALSE,
             out |-> jsonGroup("[", "]",
                        [i \in 1..Len(d.v) |-> jsonRow(d.v[i], 1, pretty)], 0, pretty)]
      [] d.shape = "Int"  -> [err |-> FALSE, out |-> d.v]
      [] OTHER            -> [err |-> TRUE, out |-> <<>>]

\* printJSON indenting also when the table style is markdown
printJSONStyled(cfg, d) ==
    LET m == jsonMarshal(d, cfg.Pretty \/ cfg.TableStyle = "markdown")
    IN  IF m.err THEN [ret |-> "ErrMarshalJSON", writes |-> <<>>]
        ELSE [ret |-> "nil",
              writes |-> << [text |-> m.out \o <<"\n">>, checked |-> TRUE,
                             err |-> "ErrWrite"] >>]

printJSON(cfg, d) ==
    LET m == jsonMarshal(d, cfg.Pretty)
    IN  IF m.err THEN [ret |-> "ErrMarshalJSON", writes |-> <<>>]
        ELSE [ret |-> "nil",
              writes |-> << [text |-> m.out \o <<"\n">>, checked |-> TRUE,
                             err |-> "ErrWrite"] >>]

Digits == {"0", "1", "2", "3", "4", "5", "6", "7", "8", "9"}

\* a string scalar: quoted when it is empty or would resolve as a number
yamlScalar(s) ==
    IF Len(s) = 0 \/ \A i \in 1..Len(s) : s[i] \in Digits
    THEN <<"\"">> \o s \o <<"\"">>
    ELSE s

\* the lines of a block mapping
yamlMapLines(m) ==
    LET sm == SortedMap(m)
    IN  [i \in 1..Len(sm) |-> yamlScalar(sm[i][1]) \o <<":", " ">> \o yamlScalar(sm[i][2])]

\* the lines of a block sequence of scalars
yamlRowLines(row) == [i \in 1..Len(row) |-> <<"-", " ">> \o yamlScalar(row[i])]

\* one "- " item of the outer sequence whose value spans the given lines:
\* the first line follows the dash, the rest are indented by indent
yamlItem(lines, empty, indent) ==
    IF Len(lines) = 0 THEN << <<"-", " ">> \o empty >>
    ELSE [i \in 1..Len(lines) |->
             (IF i = 1 THEN <<"-">> \o Repeat(" ", indent - 1)
                       ELSE Repeat(" ", indent)) \o lines[i]]

yamlDoc(lines, empty) ==
    IF Len(lines) = 0 THEN empty \o <<"\n">>
    ELSE Flatten([i \in 1..Len(lines) |-> lines[i] \o <<"\n">>])

yamlEncode(d, indent) ==
    CASE d.shape = "SingleRecord" ->
            [panic |-> FALSE, out |-> yamlDoc(yamlMapLines(d.v), <<"{", "}">>)]
      [] d.shape = "RecordList" ->
            [panic |-> FALSE,
             out |-> yamlDoc(Flatten([i \in 1..Len(d.v) |->
                                 yamlItem(yamlMapLines(d.v[i]), <<"{", "}">>, indent)]),
                             <<"[", "]">>)]
      [] d.shape = "Grid" ->
            [panic |-> FALSE,
             out |-> yamlDoc(Flatten([i \in 1..Len(d.v) |->
                                 yamlItem(yamlRowLines(d.v[i]), <<"[", "]">>, indent)]),
                             <<"[", "]">>)]
      [] d.shape = "Int"  -> [panic |-> FALSE, out |-> d.v \o <<"\n">>]
      [] OTHER            -> [panic |-> TRUE, out |-> <<>>]

\* yaml.NewEncoder(f.writer); SetIndent(2) when Pretty, else the default of 4
printYAML(cfg, d) ==
    LET e == yamlEncode(d, IF cfg.Pretty THEN 2 ELSE 4)
    IN  IF e.panic THEN [ret |-> "panic", writes |-> <<>>]
        ELSE [ret |-> "nil",
              writes |-> << [text |-> e.out, checked |-> TRUE, err |-> "ErrEncodeYAML"] >>]

fmtMap(m) ==
    LET sm == SortedMap(m)
    IN  <<"m", "a", "p", "[">> \o
        Join([i \in 1..Len(sm) |-> sm[i][1] \o <<":">> \o sm[i][2]], <<" ">>) \o <<"]">>

fmtRow(row) == <<"[">> \o Join(row, <<" ">>) \o <<"]">>

\* fmt's %v of the data value
fmtValue(d) ==
    CASE d.shape = "SingleRecord" -> fmtMap(d.v)
      [] d.shape = "RecordList" ->
            <<"[">> \o Join([i \in 1..Len(d.v) |-> fmtMap(d.v[i])], <<" ">>) \o <<"]">>
      [] d.shape = "Grid" ->
            <<"[">> \o Join([i \in 1..Len(d.v) |-> fmtRow(d.v[i])], <<" ">>) \o <<"]">>
      [] OTHER -> d.v

\* printText refusing the values that are not of a tabular shape
printTextStrict(d) ==
    IF d.shape \in {"Grid", "RecordList", "SingleRecord"}
    THEN [ret |-> "nil",
          writes |-> << [text |-> fmtValue(d) \o <<"\n">>, checked |-> TRUE,
                         err |-> "ErrWrite"] >>]
    ELSE [ret |-> "ErrUnsupported", writes |-> <<>>]

printText(d) ==
    [ret |-> "nil",
     writes |-> << [text |-> fmtValue(d) \o <<"\n">>, checked |-> TRUE,
                    err |-> "ErrWrite"] >>]

----------------------------------------------------------------------------
(* Format Selector *)

Unchecked(texts) ==
    [i \in 1..Len(texts) |-> [text |-> texts[i], checked |-> FALSE, err |-> "none"]]

\* printTable: the writes of the style renderers are fmt.Fprint calls whose
\* results are dropped; the call returns nil after them
printTable(cfg, d, ord) ==
    LET tt == toTable(d, ord)
    IN  IF tt.err THEN [ret |-> "ErrUnsupported", writes |-> <<>>]
        ELSE IF WidthsPanic(tt.t) THEN [ret |-> "panic", writes |-> <<>>]
        ELSE [ret |-> "nil",
              writes |-> Unchecked(
                  CASE cfg.TableStyle = "unicode"  -> printUnicodeTable(tt.t)
                    [] cfg.TableStyle = "markdown" -> printMarkdownTable(tt.t)
                    [] OTHER                       -> printASCIITable(tt.t))]

printCSVData(d, ord) ==
    LET tt == toTable(d, ord)
    IN  IF tt.err THEN [ret |-> "ErrUnsupported", writes |-> <<>>]
        ELSE [ret |-> "nil", writes |-> printCSV(tt.t)]

\* the switch matching the format names without regard to case
DispatchFold(format) ==
    CASE format \in {"json", "JSON"} -> "printJSON"
      [] format = "yaml"  -> "printYAML"
      [] format = "table" -> "printTable"
      [] format = "csv"   -> "printCSV"
      [] OTHER            -> "printText"

\* the switch of Formatter.Print: the print function the format selects
Dispatch(format) ==
    CASE format = "json"  -> "printJSON"
      [] format = "yaml"  -> "printYAML"
      [] format = "table" -> "printTable"
      [] format = "csv"   -> "printCSV"
      [] OTHER            -> "printText"

\* what the selected print function does before its first write: the result
\* it returns when no checked write fails, and the writes it will issue
Render(cfg, d, ord) ==
    LET r == Dispatch(cfg.Format)
    IN  CASE r = "printJSON"  -> printJSON(cfg, d)
          [] r = "printYAML"  -> printYAML(cfg, d)
          [] r = "printTable" -> printTable(cfg, d, ord)
          [] r = "printCSV"   -> printCSVData(d, ord)
          [] OTHER            -> printText(d)

\* the column widths a call computes (empty when it computes none)
WidthsOf(cfg, d, ord) ==
    IF /\ Dispatch(cfg.Format) = "printTable"
       /\ ~toTable(d, ord).err
       /\ ~WidthsPanic(toTable(d, ord).t)
    THEN calculateColumnWidths(toTable(d, ord).t) ELSE <<>>

\* the canonical table a call builds (empty when it builds none)
TableOf(cfg, d, ord) ==
    IF Dispatch(cfg.Format) \in {"printTable", "printCSV"} /\ ~toTable(d, ord).err
    THEN toTable(d, ord).t ELSE <<>>

----------------------------------------------------------------------------
(* Inputs *)

SeqsUpTo(S, n) == UNION {[1..k -> S] : k \in 0..n}

cA == <<"a">>
cBC == <<"b", "c">>
kK == <<"k">>
kID == <<"i", "d">>

Rows == {<<>>, <<cA>>, <<cA, cBC>>, <<cBC, cA>>}

Maps == {<<>>, << <<kK, cA>> >>, << <<kID, cBC>> >>, << <<kK, cA>>, <<kID, cBC>> >>}

Grids == {[shape |-> "Grid", v |-> g] : g \in SeqsUpTo(Rows, MaxRows)}
RecordLists == {[shape |-> "RecordList", v |-> l] : l \in SeqsUpTo(Maps, MaxRows)}
SingleRecords == {[shape |-> "SingleRecord", v |-> m] : m \in Maps}

\* SingleRecord{"name":"Alice","age":"30"}
Scenario1 == [shape |-> "SingleRecord",
              v |-> << << <<"n", "a", "m", "e">>, <<"A", "l", "i", "c", "e">> >>,
                       << <<"a", "g", "e">>, <<"3", "0">> >> >>]

\* RecordList[{"id":"1","name":"Bob"},{"id":"2","name":"Carol"}]
Scenario2 ==
    [shape |-> "RecordList",
     v |-> << << <<kID, <<"1">> >>, << <<"n", "a", "m", "e">>, <<"B", "o", "b">> >> >>,
              << <<kID, <<"2">> >>,
                 << <<"n", "a", "m", "e">>, <<"C", "a", "r", "o", "l">> >> >> >>]

\* Grid[["H1","H2"],["x","y"]]
Scenario4 == [shape |-> "Grid",
              v |-> << << <<"H", "1">>, <<"H", "2">> >>, << <<"x">>, <<"y">> >> >>]

\* Grid[["a,b", "say \"hi\""], ["x\ny", "a"]]: cells the CSV writer quotes
ScenarioQuote ==
    [shape |-> "Grid",
     v |-> << << <<"a", ",", "b">>, <<"s", "a", "y", " ", "\"", "h", "i", "\"">> >>,
              << <<"x", "\n", "y">>, cA >> >>]

\* Grid[["\u00e9"],["a"]]: a cell of one rune and two bytes
ScenarioAccent == [shape |-> "Grid", v |-> << << <<"U+00E9">> >>, <<cA>> >>]

Scenarios == {Scenario1, Scenario2, Scenario4, ScenarioQuote, ScenarioAccent}

\* values of no tabular shape: the int 42 and a channel
Others == {[shape |-> "Int", v |-> <<"4", "2">>],
           [shape |-> "Chan", v |-> <<"0", "x", "c", "0">>]}

Values == Grids \cup RecordLists \cup SingleRecords \cup Scenarios \cup Others

Cfg(f, s, p) == [Format |-> f, TableStyle |-> s, Pretty |-> p]

Configs ==
    {Cfg("table", s, FALSE) : s \in {"ascii", "unicode", "markdown", ""}} \cup
    {Cfg(f, "ascii", p) : f \in {"json", "yaml"}, p \in BOOLEAN} \cup
    {Cfg(f, "ascii", FALSE) : f \in {"csv", "text", "", "JSON"}}

Budgets == {Healthy} \cup 0..MaxBudget

----------------------------------------------------------------------------
(* The state machine *)

\* the callers use no mutex
NoMutex == mutex = [used |-> FALSE, holder |-> 0, acquired |-> <<>>]

\* no application Config is looked at
NoAppConfig == appConfig = "none" /\ valErr = "none" /\ authHeader = <<>>

\* Two callers, each with a Formatter of its own (NewFormatterWithWriter) on
\* a fresh sink, render the same value with the same options.
Init ==
    /\ \E cf \in Configs : config = [c \in Calls |-> cf]
    /\ \E d \in Values : data = [c \in Calls |-> d]
    /\ writer = [c \in Calls |-> c]
    /\ budget \in [Sinks -> Budgets]
    /\ sink = [s \in Sinks |-> <<>>]
    /\ pc = [c \in Calls |-> "idle"]
    /\ renderer = [c \in Calls |-> "none"]
    /\ order = [c \in Calls |-> <<>>]
    /\ table = [c \in Calls |-> <<>>]
    /\ colWidths = [c \in Calls |-> <<>>]
    /\ pending = [c \in Calls |-> <<>>]
    /\ ret = [c \in Calls |-> "none"]
    /\ attempts = [c \in Calls |-> 0]
    /\ rejected = [c \in Calls |-> 0]
    /\ late = [c \in Calls |-> 0]
    /\ NoMutex /\ NoAppConfig

\* Print rendering again the value the Formatter saw first
PrintCallCached(c) ==
    /\ pc[c] = "idle"
    /\ \E ord \in Perms(Len(RangedMap(data[1]))) :
          LET r == Render(config[c], data[1], ord)
          IN  /\ renderer' = [renderer EXCEPT ![c] = Dispatch(config[c].Format)]
              /\ order' = [order EXCEPT ![c] = ord]
              /\ table' = [table EXCEPT ![c] = TableOf(config[c], data[1], ord)]
              /\ colWidths' = [colWidths EXCEPT ![c] = WidthsOf(config[c], data[1], ord)]
              /\ pending' = [pending EXCEPT ![c] = r.writes]
              /\ ret' = [ret EXCEPT ![c] = r.ret]
              /\ pc' = [pc EXCEPT ![c] = IF Len(r.writes) = 0 THEN "done" ELSE "writing"]
    /\ UNCHANGED <<config, writer, data, sink, budget, attempts, rejected, late, others>>

\* Formatter.Print up to its first write: the dispatch, the conversion to a table in
\* the order the runtime ranges over the map, and the text of every write.
PrintCall(c) ==
    /\ pc[c] = "idle"
    /\ \E ord \in Perms(Len(RangedMap(data[c]))) :
          LET r == Render(config[c], data[c], ord)
          IN  /\ renderer' = [renderer EXCEPT ![c] = Dispatch(config[c].Format)]
              /\ order' = [order EXCEPT ![c] = ord]
              /\ table' = [table EXCEPT ![c] = TableOf(config[c], data[c], ord)]
              /\ colWidths' = [colWidths EXCEPT ![c] = WidthsOf(config[c], data[c], ord)]
              /\ pending' = [pending EXCEPT ![c] = r.writes]
              /\ ret' = [ret EXCEPT ![c] = r.ret]
              /\ pc' = [pc EXCEPT ![c] = IF Len(r.writes) = 0 THEN "done" ELSE "writing"]
    /\ UNCHANGED <<config, writer, data, sink, budget, attempts, rejected, late, others>>

\* Write on one process-wide sink, whatever writer the Formatter was given
WriteFirstSink(c) ==
    /\ pc[c] = "writing"
    /\ LET w    == Head(pending[c])
           s    == 1
           ok   == budget[s] # 0
           stop == ~ok /\ w.checked
           rest == IF stop THEN <<>> ELSE Tail(pending[c])
       IN  /\ sink' = [sink EXCEPT ![s] = IF ok THEN @ \o w.text ELSE @]
           /\ budget' = [budget EXCEPT ![s] = IF @ > 0 THEN @ - 1 ELSE @]
           /\ attempts' = [attempts EXCEPT ![c] = @ + 1]
           /\ late' = [late EXCEPT ![c] = IF rejected[c] > 0 THEN @ + 1 ELSE @]
           /\ rejected' = [rejected EXCEPT ![c] = IF ok THEN @ ELSE @ + 1]
           /\ ret' = [ret EXCEPT ![c] = IF stop THEN w.err ELSE @]
           /\ pending' = [pending EXCEPT ![c] = rest]
           /\ pc' = [pc EXCEPT ![c] = IF Len(rest) = 0 THEN "done" ELSE "writing"]
    /\ UNCHANGED <<config, writer, data, renderer, order, table, colWidths, others>>

\* The next Write on f.writer.  A sink out of budget rejects it and writes
\* nothing.  A rejected write whose error the code checks ends the call with
\* that error; any other is followed by the next write.
Write(c) ==
    /\ pc[c] = "writing"
    /\ LET w    == Head(pending[c])
           s    == writer[c]
           ok   == budget[s] # 0
           stop == ~ok /\ w.checked
           rest == IF stop THEN <<>> ELSE Tail(pending[c])
       IN  /\ sink' = [sink EXCEPT ![s] = IF ok THEN @ \o w.text ELSE @]
           /\ budget' = [budget EXCEPT ![s] = IF @ > 0 THEN @ - 1 ELSE @]
           /\ attempts' = [attempts EXCEPT ![c] = @ + 1]
           /\ late' = [late EXCEPT ![c] = IF rejected[c] > 0 THEN @ + 1 ELSE @]
           /\ rejected' = [rejected EXCEPT ![c] = IF ok THEN @ ELSE @ + 1]
           /\ ret' = [ret EXCEPT ![c] = IF stop THEN w.err ELSE @]
           /\ pending' = [pending EXCEPT ![c] = rest]
           /\ pc' = [pc EXCEPT ![c] = IF Len(rest) = 0 THEN "done" ELSE "writing"]
    /\ UNCHANGED <<config, writer, data, renderer, order, table, colWidths, others>>

\* the second caller renders after the first has returned
Next ==
    \/ PrintCall(1)
    \/ Write(1)
    \/ pc[1] = "done" /\ PrintCall(2)
    \/ pc[1] = "done" /\ Write(2)

Spec == Init /\ [][Next]_vars

----------------------------------------------------------------------------
(* Two calls that differ only in TableStyle and ColorOutput *)

\* names of table styles: the three the renderer knows, the empty string and
\* a name it does not know
Styles == {"ascii", "unicode", "markdown", "", "fancy"}

CfgColor(f, s, p, col) ==
    [Format |-> f, TableStyle |-> s, Pretty |-> p, ColorOutput |-> col]

\* the options of the two calls: one Format and one Pretty, any two styles
\* and colour switches
StyleConfigs ==
    {<<CfgColor(f, s1, p, c1), CfgColor(f, s2, p, c2)>> :
        f \in {"json", "yaml", "csv", "text", "table"}, p \in BOOLEAN,
        s1 \in Styles, s2 \in Styles, c1 \in BOOLEAN, c2 \in BOOLEAN}

InitStyle ==
    /\ \E cc \in StyleConfigs :
          /\ cc[1].Format \in {"csv", "text", "table"} => ~cc[1].Pretty
          /\ config = [c \in Calls |-> cc[c]]
    /\ \E d \in Scenarios \cup Others : data = [c \in Calls |-> d]
    /\ writer = [c \in Calls |-> c]
    /\ budget = [s \in Sinks |-> Healthy]
    /\ sink = [s \in Sinks |-> <<>>]
    /\ pc = [c \in Calls |-> "idle"]
    /\ renderer = [c \in Calls |-> "none"]
    /\ order = [c \in Calls |-> <<>>]
    /\ table = [c \in Calls |-> <<>>]
    /\ colWidths = [c \in Calls |-> <<>>]
    /\ pending = [c \in Calls |-> <<>>]
    /\ ret = [c \in Calls |-> "none"]
    /\ attempts = [c \in Calls |-> 0]
    /\ rejected = [c \in Calls |-> 0]
    /\ late = [c \in Calls |-> 0]
    /\ NoMutex /\ NoAppConfig

SpecStyle == InitStyle /\ [][Next]_vars

----------------------------------------------------------------------------
(* Concurrent callers *)

\* the values and options of the concurrent callers
ConcValues == {[shape |-> "Grid", v |-> << <<cA>> >>],
               [shape |-> "Grid", v |-> << <<cBC>> >>],
               [shape |-> "Int", v |-> <<"4", "2">>]}

ConcConfigs == {Cfg("table", "ascii", FALSE), Cfg("table", "markdown", FALSE),
                Cfg("csv", "ascii", FALSE), Cfg("json", "ascii", FALSE)}

\* Each caller has a Formatter of its own; the two write to sinks of their
\* own (NewFormatterWithWriter) or to one sink (NewFormatter: os.Stdout), and
\* they either wrap the whole call in one common mutex or use none.
InitConcurrent ==
    /\ config \in [Calls -> ConcConfigs]
    /\ data \in [Calls -> ConcValues]
    /\ writer \in {[c \in Calls |-> c], [c \in Calls |-> 1]}
    /\ budget \in [Sinks -> {Healthy, MaxBudget}]
    /\ writer[1] = writer[2] => budget = [s \in Sinks |-> Healthy]
    /\ sink = [s \in Sinks |-> <<>>]
    /\ pc = [c \in Calls |-> "idle"]
    /\ renderer = [c \in Calls |-> "none"]
    /\ order = [c \in Calls |-> <<>>]
    /\ table = [c \in Calls |-> <<>>]
    /\ colWidths = [c \in Calls |-> <<>>]
    /\ pending = [c \in Calls |-> <<>>]
    /\ ret = [c \in Calls |-> "none"]
    /\ attempts = [c \in Calls |-> 0]
    /\ rejected = [c \in Calls |-> 0]
    /\ late = [c \in Calls |-> 0]
    /\ mutex \in {[used |-> u, holder |-> 0, acquired |-> <<>>] : u \in BOOLEAN}
    /\ NoAppConfig

\* the caller's mu.Lock() before its call
Lock(c) ==
    /\ mutex.used /\ mutex.holder = 0 /\ pc[c] = "idle"
    /\ mutex' = [mutex EXCEPT !.holder = c, !.acquired = Append(@, c)]
    /\ UNCHANGED <<config, writer, data, pc, renderer, order, table, colWidths,
                   pending, ret, sink, budget, attempts, rejected, late,
                   appConfig, valErr, authHeader>>

\* mu.Unlock() issued as soon as the call has begun to write
UnlockEarly(c) ==
    /\ mutex.holder = c /\ pc[c] # "idle"
    /\ mutex' = [mutex EXCEPT !.holder = 0]
    /\ UNCHANGED <<config, writer, data, pc, renderer, order, table, colWidths,
                   pending, ret, sink, budget, attempts, rejected, late,
                   appConfig, valErr, authHeader>>

\* the caller's mu.Unlock() after its call has returned
Unlock(c) ==
    /\ mutex.holder = c /\ pc[c] = "done"
    /\ mutex' = [mutex EXCEPT !.holder = 0]
    /\ UNCHANGED <<config, writer, data, pc, renderer, order, table, colWidths,
                   pending, ret, sink, budget, attempts, rejected, late,
                   appConfig, valErr, authHeader>>

\* a caller that uses the mutex makes its call after its mu.Lock() returned
MayRun(c) == mutex.used => \E i \in 1..Len(mutex.acquired) : mutex.acquired[i] = c

\* the steps of the two callers in any interleaving
NextConcurrent ==
    \E c \in Calls :
        \/ Lock(c)
        \/ MayRun(c) /\ PrintCall(c)
        \/ MayRun(c) /\ Write(c)
        \/ Unlock(c)

SpecConcurrent == InitConcurrent /\ [][NextConcurrent]_vars

----------------------------------------------------------------------------
(* One Formatter used for two calls in a row *)

\* One Formatter (one config, one writer) renders two values, one after the
\* other, on a sink that may reject writes.
InitReuse ==
    /\ \E cf \in Configs : config = [c \in Calls |-> cf]
    /\ data \in [Calls -> Scenarios \cup Others]
    /\ writer = [c \in Calls |-> 1]
    /\ \E b \in Budgets : budget = [s \in Sinks |-> IF s = 1 THEN b ELSE Healthy]
    /\ sink = [s \in Sinks |-> <<>>]
    /\ pc = [c \in Calls |-> "idle"]
    /\ renderer = [c \in Calls |-> "none"]
    /\ order = [c \in Calls |-> <<>>]
    /\ table = [c \in Calls |-> <<>>]
    /\ colWidths = [c \in Calls |-> <<>>]
    /\ pending = [c \in Calls |-> <<>>]
    /\ ret = [c \in Calls |-> "none"]
    /\ attempts = [c \in Calls |-> 0]
    /\ rejected = [c \in Calls |-> 0]
    /\ late = [c \in Calls |-> 0]
    /\ NoMutex /\ NoAppConfig

SpecReuse == InitReuse /\ [][Next]_vars

----------------------------------------------------------------------------
(* The application Config: Validate and GetAPIAuthHeader *)

\* the largest port number
MaxPort == 65535

validFormats == {"text", "json", "yaml", "table", "csv"}

\* Validate with the database port checked before the server port
ValidateDatabaseFirst(c) ==
    IF c.Format \notin validFormats THEN "invalid output format"
    ELSE IF c.Driver # "" /\ (c.DatabasePort < 0 \/ c.DatabasePort > MaxPort)
        THEN "invalid database port"
    ELSE IF c.ServerPort < 0 \/ c.ServerPort > MaxPort THEN "invalid server port"
    ELSE IF c.MaxFileSize < 0 THEN "invalid max file size"
    ELSE IF c.RetryAttempts < 0 THEN "invalid retry attempts"
    ELSE "nil"

\* Config.Validate: the error of the first check that fails, or nil
Validate(c) ==
    IF c.Format \notin validFormats THEN "invalid output format"
    ELSE IF c.ServerPort < 0 \/ c.ServerPort > MaxPort THEN "invalid server port"
    ELSE IF c.Driver # "" /\ (c.DatabasePort < 0 \/ c.DatabasePort > MaxPort)
        THEN "invalid database port"
    ELSE IF c.MaxFileSize < 0 THEN "invalid max file size"
    ELSE IF c.RetryAttempts < 0 THEN "invalid retry attempts"
    ELSE "nil"

\* GetAPIAuthHeader with the key taking precedence over the token
GetAPIAuthHeaderKeyFirst(c) ==
    IF c.Key # <<>> THEN <<<<"X-API-Key">>, c.Key>>
    ELSE IF c.Token # <<>>
        THEN <<<<"Authorization">>, <<"B", "e", "a", "r", "e", "r", " ">> \o c.Token>>
    ELSE <<<<>>, <<>>>>

\* APIConfig.GetAPIAuthHeader: the header name and its value; the name is
\* one symbol, the value a string rune by rune
GetAPIAuthHeader(c) ==
    IF c.Token # <<>>
    THEN <<<<"Authorization">>, <<"B", "e", "a", "r", "e", "r", " ">> \o c.Token>>
    ELSE IF c.Key # <<>> THEN <<<<"X-API-Key">>, c.Key>>
    ELSE <<<<>>, <<>>>>

\* the fields Validate and GetAPIAuthHeader read, at and around the limits
\* of the checks
AppConfigs ==
    [Format : validFormats \cup {"", "xml", "JSON"},
     ServerPort : {-1, 0, 8080, MaxPort, MaxPort + 1},
     Driver : {"", "postgres"},
     DatabasePort : {-1, 0, MaxPort, MaxPort + 1},
     MaxFileSize : {-1, 0, 1},
     RetryAttempts : {-1, 0, 3},
     Token : {<<>>, <<"t", "k">>},
     Key : {<<>>, <<"k">>}]

InitConfig ==
    /\ appConfig \in AppConfigs
    /\ valErr = "none" /\ authHeader = <<>>
    /\ config = [c \in Calls |-> Cfg(appConfig.Format, "ascii", FALSE)]
    /\ data = [c \in Calls |-> [shape |-> "Int", v |-> <<"4", "2">>]]
    /\ writer = [c \in Calls |-> c]
    /\ budget = [s \in Sinks |-> Healthy]
    /\ sink = [s \in Sinks |-> <<>>]
    /\ pc = [c \in Calls |-> "idle"]
    /\ renderer = [c \in Calls |-> "none"]
    /\ order = [c \in Calls |-> <<>>]
    /\ table = [c \in Calls |-> <<>>]
    /\ colWidths = [c \in Calls |-> <<>>]
    /\ pending = [c \in Calls |-> <<>>]
    /\ ret = [c \in Calls |-> "none"]
    /\ attempts = [c \in Calls |-> 0]
    /\ rejected = [c \in Calls |-> 0]
    /\ late = [c \in Calls |-> 0]
    /\ NoMutex

\* cfg.Validate()
CallValidate ==
    /\ valErr = "none"
    /\ valErr' = Validate(appConfig)
    /\ UNCHANGED <<config, writer, data, pc, renderer, order, table, colWidths,
                   pending, ret, sink, budget, attempts, rejected, late,
                   mutex, appConfig, authHeader>>

\* cfg.API.GetAPIAuthHeader()
CallGetAPIAuthHeader ==
    /\ authHeader = <<>>
    /\ authHeader' = GetAPIAuthHeader(appConfig)
    /\ UNCHANGED <<config, writer, data, pc, renderer, order, table, colWidths,
                   pending, ret, sink, budget, attempts, rejected, late,
                   mutex, appConfig, valErr>>

NextConfig == CallValidate \/ CallGetAPIAuthHeader

SpecConfig == InitConfig /\ [][NextConfig]_vars

----------------------------------------------------------------------------
(* Properties *)

Done(c) == pc[c] = "done"
TabularShapes == {"Grid", "RecordList", "SingleRecord"}
\* the call converted its data to a canonical table
Built(c) == /\ pc[c] # "idle"
            /\ renderer[c] \in {"printTable", "printCSV"}
            /\ data[c].shape \in TabularShapes
AllRowsEmpty(t) == \A r \in 1..Len(t) : Len(t[r]) = 0

\* C1: with format table or csv, a value of none of the three tabular shapes
\* makes the call return the unsupported-shape error; it attempts no write,
\* leaves the sink empty and is not handed to the text renderer.
C1_UnsupportedShape ==
    \A c \in Calls :
        (/\ pc[c] # "idle"
         /\ config[c].Format \in {"table", "csv"}
         /\ data[c].shape \notin TabularShapes)
        => /\ Done(c)
           /\ ret[c] = "ErrUnsupported"
           /\ attempts[c] = 0
           /\ sink[writer[c]] = <<>>
           /\ renderer[c] # "printText"

C1_Witness ==
    \E c \in Calls :
        /\ Done(c) /\ config[c].Format = "csv" /\ data[c].shape = "Int"
        /\ ret[c] = "ErrUnsupported"

\* C2: json, yaml, table and csv select their own renderer; text and every
\* other format string (the empty string, "JSON") select the text renderer,
\* which writes the value's default representation and returns no error on
\* a sink that accepts the write.
C2_Dispatch ==
    \A c \in Calls :
        pc[c] # "idle" =>
            LET f == config[c].Format
            IN  /\ f = "json"  => renderer[c] = "printJSON"
                /\ f = "yaml"  => renderer[c] = "printYAML"
                /\ f = "table" => renderer[c] = "printTable"
                /\ f = "csv"   => renderer[c] = "printCSV"
                /\ f \notin {"json", "yaml", "table", "csv"} =>
                       /\ renderer[c] = "printText"
                       /\ ret[c] \in {"nil", "ErrWrite"}
                       /\ (Done(c) /\ rejected[c] = 0) =>
                              /\ ret[c] = "nil"
                              /\ sink[writer[c]] = fmtValue(data[c]) \o <<"\n">>

C2_Witness ==
    \E c \in Calls :
        /\ Done(c) /\ config[c].Format = "JSON" /\ renderer[c] = "printText"
        /\ ret[c] = "nil" /\ data[c].shape = "RecordList" /\ Len(data[c].v) > 0

\* C3: every row of every canonical table has as many cells as the header.
C3_RowsMatchHeader ==
    \A c \in Calls :
        Built(c) => \A r \in 1..Len(table[c]) : Len(table[c][r]) = Len(table[c][1])

\* C4: two calls with the same value and options, each on a fresh sink that
\* accepts every write, leave the same bytes on their sinks.
C4_Idempotent ==
    (/\ Done(1) /\ Done(2)
     /\ data[1] = data[2] /\ config[1] = config[2]
     /\ rejected[1] = 0 /\ rejected[2] = 0)
    => sink[writer[1]] = sink[writer[2]]

\* C5: a csv call whose sink rejected a write returns an error, and a csv
\* call that returns nil has put every record on the sink.
C5_CSVErrorSurfaced ==
    \A c \in Calls :
        (Done(c) /\ renderer[c] = "printCSV" /\ data[c].shape \in TabularShapes)
        => /\ rejected[c] > 0 => ret[c] # "nil"
           /\ ret[c] = "nil" =>
                  sink[writer[c]] =
                      Flatten([r \in 1..Len(table[c]) |-> csvRecord(table[c][r])])

\* C6: in every format a rejected write ends the call with an error, and no
\* write is attempted after the rejected one.
C6_WriteErrorReturned ==
    \A c \in Calls :
        /\ late[c] = 0
        /\ (Done(c) /\ rejected[c] > 0) => ret[c] \notin {"nil", "none"}

\* C7 as stated: a canonical table without columns (a header of length 0
\* and rows of that length) makes the four tabular renderers write nothing
\* and return no error.
C7_ZeroColumnsNoOp ==
    \A c \in Calls :
        (Done(c) /\ Built(c) /\ Len(table[c]) > 0 /\ AllRowsEmpty(table[c]))
        => attempts[c] = 0 /\ ret[c] = "nil"

\* what the renderers write for n rows without cells
ZeroColumnOutput(cfg, n) ==
    CASE cfg.Format = "csv" -> Repeat("\n", n)
      [] cfg.TableStyle = "unicode" ->
            <<"U+250C", "U+2510", "\n", "U+2502", " ", "\n", "U+251C", "U+2524", "\n">> \o
            Flatten(Repeat(<<"U+2502", " ", "\n">>, n - 1)) \o
            <<"U+2514", "U+2518", "\n">>
      [] OTHER ->
            <<"|", " ", "\n", "|", "\n">> \o Flatten(Repeat(<<"|", " ", "\n">>, n - 1))

\* C7, amended: a table without rows is the no-op (nothing is attempted, nil
\* is returned); a table whose rows all have no cells is rendered without
\* error as delimiter-only lines when the sink accepts the writes.
C7_ZeroRowsNoOp ==
    \A c \in Calls :
        (Done(c) /\ Built(c)) =>
            /\ Len(table[c]) = 0 =>
                   attempts[c] = 0 /\ ret[c] = "nil" /\ sink[writer[c]] = <<>>
            /\ (Len(table[c]) > 0 /\ AllRowsEmpty(table[c]) /\ rejected[c] = 0) =>
                   /\ ret[c] = "nil"
                   /\ attempts[c] > 0
                   /\ sink[writer[c]] = ZeroColumnOutput(config[c], Len(table[c]))

C7_Witness ==
    \E c \in Calls :
        /\ Done(c) /\ Built(c) /\ config[c].Format = "table"
        /\ config[c].TableStyle = "ascii"
        /\ table[c] = << <<>>, <<>> >>
        /\ sink[writer[c]] = <<"|", " ", "\n", "|", "\n", "|", " ", "\n">>

\* the lines of a table that has the header h and no data row
HeaderLine(h, bar) ==
    <<bar, " ">> \o Flatten([i \in 1..Len(h) |-> h[i] \o <<" ", bar, " ">>]) \o <<"\n">>
RuleLine(h) ==
    <<"|">> \o Flatten([i \in 1..Len(h) |-> Repeat("-", Len(h[i]) + 2) \o <<"|">>]) \o
    <<"\n">>
BorderLine(h, left, mid, right) ==
    <<left>> \o Join([i \in 1..Len(h) |-> Repeat("U+2500", Len(h[i]) + 2)], <<mid>>) \o
    <<right, "\n">>

HeaderOnlyOutput(cfg, h) ==
    CASE cfg.Format = "csv" -> Join(h, <<",">>) \o <<"\n">>
      [] cfg.TableStyle = "unicode" ->
            BorderLine(h, "U+250C", "U+252C", "U+2510") \o HeaderLine(h, "U+2502") \o
            BorderLine(h, "U+251C", "U+253C", "U+2524") \o
            BorderLine(h, "U+2514", "U+2534", "U+2518")
      [] OTHER -> HeaderLine(h, "|") \o RuleLine(h)

\* C8: a table of a header and no data row is rendered without error as the
\* header line and the separator (ASCII, Markdown), as top border, header,
\* cross-rule and bottom border (Unicode) or as the header record (CSV); an
\* empty RecordList is rendered without error and without any data row.
C8_HeaderOnly ==
    \A c \in Calls :
        (Done(c) /\ Built(c) /\ rejected[c] = 0) =>
            /\ Len(table[c]) = 1 =>
                   /\ ret[c] = "nil"
                   /\ sink[writer[c]] = HeaderOnlyOutput(config[c], table[c][1])
            /\ (data[c].shape = "RecordList" /\ Len(data[c].v) = 0) =>
                   ret[c] = "nil" /\ sink[writer[c]] = <<>>

C8_Witness ==
    \E c \in Calls :
        /\ Done(c) /\ Built(c) /\ config[c].TableStyle = "unicode"
        /\ config[c].Format = "table"
        /\ table[c] = << <<cA, cBC>> >> /\ ret[c] = "nil" /\ rejected[c] = 0

\* C9: for a RecordList the header is the key set of the first record, each
\* record gives one row whose i-th cell is its value for header[i] or ""
\* when it lacks that key, and the conversion returns no error.
C9_RecordList ==
    \A c \in Calls :
        (Built(c) /\ data[c].shape = "RecordList" /\ Len(data[c].v) > 0) =>
            LET recs == data[c].v
                t    == table[c]
                h    == t[1]
            IN  /\ ret[c] # "ErrUnsupported"
                /\ {h[i] : i \in 1..Len(h)} = {recs[1][j][1] : j \in 1..Len(recs[1])}
                /\ Len(h) = Len(recs[1])
                /\ Len(t) = Len(recs) + 1
                /\ \A r \in 1..Len(recs) :
                       /\ Len(t[r + 1]) = Len(h)
                       /\ \A i \in 1..Len(h) :
                              \/ \E j \in 1..Len(recs[r]) :
                                     recs[r][j] = <<h[i], t[r + 1][i]>>
                              \/ /\ \A j \in 1..Len(recs[r]) : recs[r][j][1] # h[i]
                                 /\ t[r + 1][i] = <<>>

C9_Witness ==
    \E c \in Calls :
        /\ Built(c) /\ data[c].shape = "RecordList" /\ Len(data[c].v) = 2
        /\ Len(data[c].v[1]) = 1 /\ Len(data[c].v[2]) = 2
        /\ data[c].v[1][1][1] = kID
        /\ table[c] = << <<kID>>, <<cBC>>, <<cBC>> >>

\* C10: for a SingleRecord the table is the header Key, Value followed by one
\* row per entry, in the order in which the caller wrote the entries.
C10_SingleRecordOrder ==
    \A c \in Calls :
        (Built(c) /\ data[c].shape = "SingleRecord") =>
            table[c] = << <<sKey, sValue>> >> \o
                       [i \in 1..Len(data[c].v) |-> <<data[c].v[i][1], data[c].v[i][2]>>]

\* the call computed the column widths of a table that has a header
HasWidths(c) ==
    /\ Built(c) /\ renderer[c] = "printTable"
    /\ ret[c] # "panic" /\ Len(table[c]) > 0

\* C11: there is one width per header column, and the width of column i is
\* the largest number of characters of a cell of column i, header included.
C11_WidthsAreCharacterMax ==
    \A c \in Calls :
        HasWidths(c) =>
            LET t == table[c]
            IN  /\ Len(colWidths[c]) = Len(t[1])
                /\ \A i \in 1..Len(t[1]) :
                       /\ \A r \in 1..Len(t) : Len(t[r]) >= i => Len(t[r][i]) <= colWidths[c][i]
                       /\ \E r \in 1..Len(t) : Len(t[r]) >= i /\ Len(t[r][i]) = colWidths[c][i]

\* the lines of a text, each without the newline that ends it
LinesOf(s) ==
    LET nl     == {i \in 1..Len(s) : s[i] = "\n"}
        pos(k) == CHOOSE i \in nl : Cardinality({j \in nl : j < i}) = k - 1
    IN  [k \in 1..Cardinality(nl) |->
            SubSeq(s, (IF k = 1 THEN 0 ELSE pos(k - 1)) + 1, pos(k) - 1)]

NoNewline(t) ==
    \A r \in 1..Len(t) : \A i \in 1..Len(t[r]) : \A j \in 1..Len(t[r][i]) : t[r][i][j] # "\n"

\* the call rendered a table in one of the three styles, every write was
\* accepted, and no cell breaks a line
Rendered(c) == HasWidths(c) /\ Done(c) /\ rejected[c] = 0 /\ NoNewline(table[c])

IsUnicode(c) == config[c].TableStyle = "unicode"

\* the line that holds row r of the table (row 1 is the header)
RowLine(c, r) ==
    LinesOf(sink[writer[c]])[IF IsUnicode(c) THEN (IF r = 1 THEN 2 ELSE r + 2)
                                             ELSE (IF r = 1 THEN 1 ELSE r + 1)]

\* characters of a row line before the cell of column i: the opening
\* delimiter and, per earlier column, the padded cell and its delimiter
RECURSIVE CellOffset(_, _)
CellOffset(w, i) == IF i <= 1 THEN 2 ELSE CellOffset(w, i - 1) + w[i - 1] + 3

\* C12: in every rendered header and data row of the three table styles the
\* cell of column i takes exactly widths[i] characters: the whole cell, left-
\* aligned, then spaces; nothing else but the fixed delimiters is on the line.
C12_CellsPadded ==
    \A c \in Calls :
        Rendered(c) =>
            \A r \in 1..Len(table[c]) :
                LET row  == table[c][r]
                    w    == colWidths[c]
                    line == RowLine(c, r)
                IN  /\ Len(line) = CellOffset(w, Len(row) + 1)
                    /\ \A i \in 1..Len(row) :
                           LET seg == SubSeq(line, CellOffset(w, i) + 1,
                                             CellOffset(w, i) + w[i])
                           IN  /\ Len(row[i]) <= w[i]
                               /\ SubSeq(seg, 1, Len(row[i])) = row[i]
                               /\ \A j \in (Len(row[i]) + 1)..w[i] : seg[j] = " "

C12_Witness ==
    \E c \in Calls :
        /\ Rendered(c) /\ config[c].TableStyle = "markdown"
        /\ table[c] = << <<cA, cBC>>, <<cBC, cA>> >>
        /\ colWidths[c] = <<2, 2>>

IsMarkdown(c) == config[c].TableStyle = "markdown"

\* a '|', then per column a run of w[i] + extra dashes and a '|'
RECURSIVE DashRuns(_, _)
DashRuns(w, extra) ==
    IF Len(w) = 0 THEN <<"|">>
    ELSE DashRuns(SubSeq(w, 1, Len(w) - 1), extra) \o Repeat("-", w[Len(w)] + extra) \o <<"|">>

\* C13 as stated: the separator row after the Markdown header has, for each
\* column i, a run of exactly widths[i] dashes between the '|' delimiters.
C13_SeparatorDashesWidth ==
    \A c \in Calls :
        Rendered(c) /\ IsMarkdown(c) =>
            LinesOf(sink[writer[c]])[2] = DashRuns(colWidths[c], 0)

\* C13: the separator row after the Markdown header has, for each column i, a
\* run of exactly widths[i] + 2 dashes between the '|' delimiters, as wide as
\* the padded cell and its two surrounding spaces.
C13_SeparatorDashesWidthPlusTwo ==
    \A c \in Calls :
        Rendered(c) /\ IsMarkdown(c) =>
            LinesOf(sink[writer[c]])[2] = DashRuns(colWidths[c], 2)

C13_Witness ==
    \E c \in Calls :
        /\ Rendered(c) /\ IsMarkdown(c) /\ data[c] = Scenario4
        /\ LinesOf(sink[writer[c]])[2] = <<"|", "-", "-", "-", "-", "|", "-", "-", "-", "-", "|">>

IsASCII(c) == ~IsUnicode(c) /\ ~IsMarkdown(c)

\* '| H1 | H2 |', '|----|----|', '| x  | y  |', each followed by a newline
Scenario4Markdown ==
    <<"|", " ", "H", "1", " ", "|", " ", "H", "2", " ", "|", "\n",
      "|", "-", "-", "-", "-", "|", "-", "-", "-", "-", "|", "\n",
      "|", " ", "x", " ", " ", "|", " ", "y", " ", " ", "|", "\n">>

\* C14: Grid [["H1","H2"],["x","y"]] in Markdown style is written as exactly
\* the lines '| H1 | H2 |', '|----|----|', '| x  | y  |', and every line the
\* ASCII and Markdown renderers write for a table with columns ends with its
\* closing '|', directly followed by the newline.
C14_LinesEndWithDelimiter ==
    \A c \in Calls :
        Rendered(c) =>
            /\ IsMarkdown(c) /\ data[c] = Scenario4 => sink[writer[c]] = Scenario4Markdown
            /\ (IsMarkdown(c) \/ IsASCII(c)) /\ Len(table[c][1]) > 0 =>
                   LET lines == LinesOf(sink[writer[c]])
                   IN  \A k \in 1..Len(lines) :
                           Len(lines[k]) > 0 /\ lines[k][Len(lines[k])] = "|"

\* the line shows the cells of the row, each at the place of its column
LineHoldsRow(line, row, w) ==
    \A i \in 1..Len(row) :
        SubSeq(line, CellOffset(w, i) + 1, CellOffset(w, i) + Len(row[i])) = row[i]

\* C15: the ASCII renderer writes the header row, then exactly one separator
\* line, then the data rows in table order; the separator line is '|' and,
\* for each column i, widths[i] + 2 dashes and a '|'.
C15_ASCIILayout ==
    \A c \in Calls :
        Rendered(c) /\ IsASCII(c) =>
            LET t     == table[c]
                w     == colWidths[c]
                lines == LinesOf(sink[writer[c]])
            IN  /\ Len(lines) = Len(t) + 1
                /\ LineHoldsRow(lines[1], t[1], w) /\ lines[1][1] = "|" /\ lines[1][2] = " "
                /\ lines[2] = DashRuns(w, 2)
                /\ \A k \in 1..Len(lines) : lines[k] = DashRuns(w, 2) => k = 2
                /\ \A r \in 2..Len(t) :
                       LineHoldsRow(lines[r + 1], t[r], w) /\ lines[r + 1][2] = " "

C15_Witness ==
    \E c \in Calls :
        /\ Rendered(c) /\ IsASCII(c) /\ data[c] = Scenario2
        /\ Len(table[c]) = 3 /\ Len(LinesOf(sink[writer[c]])) = 4

\* number of characters from the first to the last box-drawing character
Span(line) ==
    LET box == {i \in 1..Len(line) : line[i] \in NonASCII}
    IN  IF box = {} THEN 0
        ELSE (CHOOSE i \in box : \A j \in box : j <= i)
             - (CHOOSE i \in box : \A j \in box : i <= j) + 1

\* C16: for a table with columns the Unicode renderer writes a top border,
\* the header row, a cross-rule, the data rows and a bottom border, N + 4
\* lines for N data rows, and the output is rectangular: all lines span the
\* same number of characters from the first to the last box-drawing character.
C16_UnicodeRectangular ==
    \A c \in Calls :
        Rendered(c) /\ IsUnicode(c) /\ Len(table[c][1]) > 0 =>
            LET t     == table[c]
                w     == colWidths[c]
                lines == LinesOf(sink[writer[c]])
            IN  /\ Len(lines) = (Len(t) - 1) + 4
                /\ lines[1][1] = "U+250C" /\ lines[3][1] = "U+251C"
                /\ lines[Len(lines)][1] = "U+2514"
                /\ LineHoldsRow(lines[2], t[1], w)
                /\ \A r \in 2..Len(t) : LineHoldsRow(lines[r + 2], t[r], w)
                /\ \A k \in 1..Len(lines) : Span(lines[k]) = Span(lines[1])

\* the data value of the call cannot be serialized: a channel
SerializationFails(c) ==
    /\ pc[c] # "idle" /\ renderer[c] \in {"printJSON", "printYAML"}
    /\ data[c].shape = "Chan"

\* C17: when the JSON or YAML serialization of the data fails, the call
\* returns an error and no byte has been written to the sink.
C17_SerializationFailure ==
    \A c \in Calls :
        SerializationFails(c) =>
            /\ ret[c] \in {"ErrMarshalJSON", "ErrEncodeYAML"}
            /\ sink[writer[c]] = <<>> /\ attempts[c] = 0

\* C18: with format json, yaml or text (and any name the selector hands to
\* the text renderer) the call never builds a table and never returns the
\* unsupported-shape error; an integer, which is of none of the three tabular
\* shapes, is written out and the call returns nil.
C18_NoNormalizer ==
    \A c \in Calls :
        pc[c] # "idle" /\ renderer[c] \in {"printJSON", "printYAML", "printText"} =>
            /\ ret[c] # "ErrUnsupported"
            /\ table[c] = <<>> /\ colWidths[c] = <<>>
            /\ Done(c) /\ data[c].shape = "Int" /\ rejected[c] = 0 =>
                   /\ ret[c] = "nil"
                   /\ sink[writer[c]] = <<"4", "2", "\n">>

C18_Witness ==
    \E c \in Calls :
        /\ Done(c) /\ renderer[c] = "printText" /\ data[c].shape = "Int"
        /\ rejected[c] = 0 /\ sink[writer[c]] = <<"4", "2", "\n">>

\* 'id,name', '1,Bob', '2,Carol', each followed by a newline
Scenario2CSV ==
    <<"i", "d", ",", "n", "a", "m", "e", "\n",
      "1", ",", "B", "o", "b", "\n",
      "2", ",", "C", "a", "r", "o", "l", "\n">>

\* C19: RecordList [{id:1,name:Bob},{id:2,name:Carol}] with format csv is
\* written as exactly 'id,name\n1,Bob\n2,Carol\n': the header with the columns
\* id, name, then one record per element in input order.
C19_Scenario2CSV ==
    \A c \in Calls :
        /\ Done(c) /\ renderer[c] = "printCSV" /\ data[c] = Scenario2
        /\ rejected[c] = 0
        => sink[writer[c]] = Scenario2CSV

\* A CSV parser as encoding/csv's Reader with any number of fields per record:
\* fields are separated by commas, a field that starts with a double quote
\* runs to the closing quote with "" standing for one quote, a record ends at
\* a newline outside quotes, and a line without any character is skipped.
RECURSIVE csvParse(_, _, _, _, _, _)
csvParse(s, i, quoted, field, rec, started) ==
    IF i > Len(s) THEN (IF started THEN <<Append(rec, field)>> ELSE <<>>)
    ELSE IF quoted THEN
        IF s[i] = "\""
        THEN IF i < Len(s) /\ s[i + 1] = "\""
             THEN csvParse(s, i + 2, TRUE, Append(field, "\""), rec, TRUE)
             ELSE csvParse(s, i + 1, FALSE, field, rec, TRUE)
        ELSE csvParse(s, i + 1, TRUE, Append(field, s[i]), rec, TRUE)
    ELSE CASE s[i] = "\"" /\ field = <<>> -> csvParse(s, i + 1, TRUE, field, rec, TRUE)
           [] s[i] = "," -> csvParse(s, i + 1, FALSE, <<>>, Append(rec, field), TRUE)
           [] s[i] = "\n" ->
                (IF started THEN <<Append(rec, field)>> ELSE <<>>) \o
                csvParse(s, i + 1, FALSE, <<>>, <<>>, FALSE)
           [] OTHER -> csvParse(s, i + 1, FALSE, Append(field, s[i]), rec, TRUE)

ParseCSV(s) == csvParse(s, 1, FALSE, <<>>, <<>>, FALSE)

\* the call wrote a table as CSV and every write was accepted
WroteCSV(c) ==
    /\ Built(c) /\ renderer[c] = "printCSV" /\ Done(c)
    /\ rejected[c] = 0 /\ ret[c] = "nil"

\* '"a,b","say ""hi"""', '"x', 'y",a'
ScenarioQuoteCSV ==
    <<"\"", "a", ",", "b", "\"", ",", "\"", "s", "a", "y", " ", "\"", "\"", "h", "i",
      "\"", "\"", "\"", "\n", "\"", "x", "\n", "y", "\"", ",", "a", "\n">>

\* C20: the CSV output of a table whose rows have cells quotes the cells that
\* hold a comma, a double quote or a newline and doubles the quotes inside
\* them, and a CSV parser reading the output recovers every cell of every row.
C20_CSVRoundTrip ==
    \A c \in Calls :
        WroteCSV(c) /\ (\A r \in 1..Len(table[c]) : Len(table[c][r]) > 0) =>
            /\ data[c] = ScenarioQuote => sink[writer[c]] = ScenarioQuoteCSV
            /\ ParseCSV(sink[writer[c]]) = table[c]

BothDone == \A c \in Calls : Done(c)

\* C21: two calls with format json or yaml that differ only in TableStyle and
\* ColorOutput return the same result and write the same bytes: the output
\* depends on the data and on Pretty only.
C21_StyleAndColorIgnored ==
    BothDone /\ renderer[1] \in {"printJSON", "printYAML"} =>
        /\ ret[1] = ret[2]
        /\ sink[writer[1]] = sink[writer[2]]

C21_Witness ==
    /\ BothDone /\ renderer[1] = "printJSON" /\ data[1] = Scenario1
    /\ config[1].TableStyle = "ascii" /\ config[2].TableStyle = "markdown"
    /\ config[1].ColorOutput # config[2].ColorOutput
    /\ ~config[1].Pretty
    /\ sink[writer[1]] = sink[writer[2]] /\ Len(sink[writer[1]]) > 0

\* the writes of the renderer the style name stands for
StyleOutput(style, t) ==
    Flatten(CASE style = "unicode"  -> printUnicodeTable(t)
              [] style = "markdown" -> printMarkdownTable(t)
              [] OTHER              -> printASCIITable(t))

\* C22: TableStyle is consulted only under format table, where unicode and
\* markdown select their renderers and every other name selects the ASCII
\* renderer without error; under csv, json, yaml and text two calls that
\* differ only in TableStyle write the same output.
C22_StyleOnlyForTable ==
    /\ \A c \in Calls :
           Done(c) /\ renderer[c] = "printTable" /\ Built(c) /\ ret[c] # "panic" =>
               ret[c] = "nil" /\ sink[writer[c]] = StyleOutput(config[c].TableStyle, table[c])
    /\ BothDone /\ renderer[1] # "printTable" =>
           ret[1] = ret[2] /\ sink[writer[1]] = sink[writer[2]]

\* What a call writes, and what it returns, when it runs alone on a sink
\* that accepts b more writes (Healthy: all of them).
RECURSIVE Solo(_, _, _)
Solo(ws, b, r) ==
    IF Len(ws) = 0 THEN [out |-> <<>>, ret |-> r]
    ELSE LET w == Head(ws)
         IN  IF b = 0 /\ w.checked THEN [out |-> <<>>, ret |-> w.err]
             ELSE LET rest == Solo(Tail(ws), IF b > 0 THEN b - 1 ELSE b, r)
                  IN  [out |-> (IF b # 0 THEN w.text ELSE <<>>) \o rest.out,
                       ret |-> rest.ret]

\* the run of call c alone, with the map range order it met
SoloRun(c, b) ==
    LET r == Render(config[c], data[c], order[c])
    IN  Solo(r.writes, b, r.ret)

\* what the sink of call c accepted when the call began, given that only
\* call c writes to it
BudgetAtStart(c) ==
    IF budget[writer[c]] = Healthy THEN Healthy
    ELSE budget[writer[c]] + (attempts[c] - rejected[c])

OwnSinks == writer[1] # writer[2]

\* C23: concurrent calls of independent callers, each on a Formatter and a
\* sink of its own, do not interfere: under every interleaving each call
\* returns, and each sink holds, exactly what a run of that call alone gives.
C23_IndependentCallers ==
    \A c \in Calls :
        OwnSinks /\ Done(c) =>
            /\ sink[writer[c]] = SoloRun(c, BudgetAtStart(c)).out
            /\ ret[c] = SoloRun(c, BudgetAtStart(c)).ret

\* two callers without a mutex, a Markdown table and a CSV table, both done
C23_Witness ==
    /\ OwnSinks /\ BothDone /\ ~mutex.used
    /\ data[1] = [shape |-> "Grid", v |-> << <<cA>> >>]
    /\ data[2] = [shape |-> "Grid", v |-> << <<cBC>> >>]
    /\ config[1].TableStyle = "markdown" /\ config[2].Format = "csv"
    /\ Len(sink[1]) > 0 /\ Len(sink[2]) > 0

SharedSink == writer[1] = writer[2]

\* the texts of the writes of call c, in the order the call issues them
WritesOf(c) ==
    LET ws == Render(config[c], data[c], order[c]).writes
    IN  [i \in 1..Len(ws) |-> ws[i].text]

IsPrefix(p, s) == Len(p) <= Len(s) /\ SubSeq(s, 1, Len(p)) = p

\* s consists of the writes w1 and the writes w2, each kept whole and each
\* sequence in its own order
RECURSIVE IsMerge(_, _, _)
IsMerge(s, w1, w2) ==
    \/ Len(s) = 0 /\ Len(w1) = 0 /\ Len(w2) = 0
    \/ /\ Len(w1) > 0 /\ IsPrefix(Head(w1), s)
       /\ IsMerge(SubSeq(s, Len(Head(w1)) + 1, Len(s)), Tail(w1), w2)
    \/ /\ Len(w2) > 0 /\ IsPrefix(Head(w2), s)
       /\ IsMerge(SubSeq(s, Len(Head(w2)) + 1, Len(s)), w1, Tail(w2))

\* C24: the renderer takes no lock.  When two calls write to one sink, the
\* sink holds the writes of both, each write whole and each call's writes in
\* order; if both callers wrap the whole call in one mutex, the sink holds the
\* complete output of the call that took the mutex first, then the complete
\* output of the other.
C24_SharedSink ==
    SharedSink /\ BothDone =>
        /\ IsMerge(sink[writer[1]], WritesOf(1), WritesOf(2))
        /\ mutex.used =>
               /\ Len(mutex.acquired) = 2
               /\ sink[writer[1]] = Flatten(WritesOf(mutex.acquired[1])) \o
                                    Flatten(WritesOf(mutex.acquired[2]))

\* without the mutex the cells of two ASCII tables share one line: '| | a | bc'
C24_Witness ==
    /\ SharedSink /\ BothDone /\ ~mutex.used
    /\ renderer[1] = "printTable" /\ renderer[2] = "printTable"
    /\ IsPrefix(<<"|", " ", "|", " ", "a", " ", "|", " ", "b", "c", " ", "|", " ">>,
                sink[writer[1]])

\* writes of call c the sink accepted
Accepted(c) == attempts[c] - rejected[c]

\* what the one sink still accepted when call c began
ReuseBudget(c) ==
    IF budget[1] = Healthy THEN Healthy
    ELSE budget[1] + Accepted(2) + (IF c = 1 THEN Accepted(1) ELSE 0)

\* after the calls the sink holds, in call order, what each call writes when
\* run on its own, and each call returned what it returns on its own
ReuseConcat ==
    /\ Done(1) => ret[1] = SoloRun(1, ReuseBudget(1)).ret
    /\ Done(1) /\ pc[2] = "idle" => sink[1] = SoloRun(1, ReuseBudget(1)).out
    /\ BothDone =>
           /\ ret[2] = SoloRun(2, ReuseBudget(2)).ret
           /\ sink[1] = SoloRun(1, ReuseBudget(1)).out \o SoloRun(2, ReuseBudget(2)).out

\* C25: Print keeps no state between calls.  No step of a call changes the
\* Formatter's config or writer or the caller's data, and after any calls on
\* one Formatter, successful or failed, the sink holds the concatenation, in
\* call order, of what each call writes on its own.
C25_Stateless ==
    /\ []ReuseConcat
    /\ [][config' = config /\ writer' = writer /\ data' = data]_vars

\* a failed call followed by a successful one with other data
C25_Witness ==
    /\ BothDone /\ writer[1] = writer[2]
    /\ data[1] = [shape |-> "Chan", v |-> <<"0", "x", "c", "0">>] /\ data[2] = Scenario4
    /\ config[1].Format = "csv" /\ ret[1] = "ErrUnsupported" /\ ret[2] = "nil"
    /\ budget[1] = Healthy /\ Len(sink[1]) > 0

FormatOK   == appConfig.Format \in {"text", "json", "yaml", "table", "csv"}
ServerOK   == appConfig.ServerPort \in 0..65535
DatabaseOK == appConfig.Driver = "" \/ appConfig.DatabasePort \in 0..65535
SizeOK     == appConfig.MaxFileSize >= 0
RetryOK    == appConfig.RetryAttempts >= 0

\* C26: Validate returns nil exactly when the format is one of text, json,
\* yaml, table, csv, the server port is in 0..65535, the database port is in
\* 0..65535 or no driver is set, the max file size is not negative and the
\* retry attempts are not negative; otherwise it returns the error of the
\* first of these checks, in this order, that fails.
C26_Validate ==
    valErr # "none" =>
        /\ valErr = "nil" <=> FormatOK /\ ServerOK /\ DatabaseOK /\ SizeOK /\ RetryOK
        /\ ~FormatOK => valErr = "invalid output format"
        /\ FormatOK /\ ~ServerOK => valErr = "invalid server port"
        /\ FormatOK /\ ServerOK /\ ~DatabaseOK => valErr = "invalid database port"
        /\ FormatOK /\ ServerOK /\ DatabaseOK /\ ~SizeOK => valErr = "invalid max file size"
        /\ FormatOK /\ ServerOK /\ DatabaseOK /\ SizeOK /\ ~RetryOK =>
               valErr = "invalid retry attempts"

\* two checks fail and the earlier one is reported
C26_Witness ==
    /\ valErr = "invalid server port"
    /\ appConfig.ServerPort = 65536
    /\ appConfig.Driver = "postgres" /\ appConfig.DatabasePort = -1

\* C27: GetAPIAuthHeader returns ("Authorization", "Bearer " + token) when the
\* token is not empty, also when a key is set; ("X-API-Key", key) when the
\* token is empty and the key is not; two empty strings when both are empty.
C27_AuthHeader ==
    authHeader # <<>> =>
        /\ appConfig.Token # <<>> =>
               authHeader = << <<"Authorization">>,
                               <<"B", "e", "a", "r", "e", "r", " ">> \o appConfig.Token >>
        /\ appConfig.Token = <<>> /\ appConfig.Key # <<>> =>
               authHeader = << <<"X-API-Key">>, appConfig.Key >>
        /\ appConfig.Token = <<>> /\ appConfig.Key = <<>> => authHeader = << <<>>, <<>> >>

\* token and key both set: the token wins
C27_Witness ==
    /\ appConfig.Token = <<"t", "k">> /\ appConfig.Key = <<"k">>
    /\ authHeader = << <<"Authorization">>, <<"B", "e", "a", "r", "e", "r", " ", "t", "k">> >>

\* the call rendered a Grid with at least one row, without line breaks inside
\* cells, and every write was accepted
GridRendered(c) ==
    /\ Done(c) /\ rejected[c] = 0
    /\ data[c].shape = "Grid" /\ Len(data[c].v) > 0 /\ NoNewline(data[c].v)

\* C28: a non-empty Grid reaches the renderers unchanged, the first row as
\* header and the others as data in the same order with the same cells: the
\* ASCII and Markdown output has len(grid) + 1 lines and the CSV output has
\* len(grid) records.
C28_GridPassedThrough ==
    \A c \in Calls :
        GridRendered(c) =>
            /\ renderer[c] \in {"printTable", "printCSV"} => table[c] = data[c].v
            /\ renderer[c] = "printTable" /\ ~IsUnicode(c) =>
                   /\ ret[c] = "nil"
                   /\ Len(LinesOf(sink[writer[c]])) = Len(data[c].v) + 1
            /\ renderer[c] = "printCSV" =>
                   Len(LinesOf(sink[writer[c]])) = Len(data[c].v)

\* the cells of one record under the header h
RowOfRecord(rec, h) ==
    [i \in 1..Len(h) |->
        IF \E j \in 1..Len(rec) : rec[j][1] = h[i]
        THEN (CHOOSE p \in {rec[j] : j \in 1..Len(rec)} : p[1] = h[i])[2]
        ELSE <<>>]

\* C29: for a RecordList of n > 0 records the table has n + 1 rows: the
\* header, then for k = 1..n the row of record k, the first record included,
\* in input order, each built from its own record; written as CSV without
\* line breaks inside cells, that is n + 1 lines.
C29_RowPerRecord ==
    \A c \in Calls :
        Built(c) /\ data[c].shape = "RecordList" /\ Len(data[c].v) > 0 =>
            LET recs == data[c].v
                t    == table[c]
            IN  /\ Len(t) = Len(recs) + 1
                /\ \A k \in 1..Len(recs) : t[k + 1] = RowOfRecord(recs[k], t[1])
                /\ renderer[c] = "printCSV" /\ Done(c) /\ rejected[c] = 0 /\ NoNewline(t) =>
                       Len(LinesOf(sink[writer[c]])) = Len(recs) + 1

C29_Witness ==
    \E c \in Calls :
        /\ Built(c) /\ data[c] = Scenario2 /\ renderer[c] = "printCSV"
        /\ Done(c) /\ rejected[c] = 0
        /\ Len(table[c]) = 3 /\ table[c][1] = <<kID, <<"n", "a", "m", "e">>>>
        /\ table[c][2] = << <<"1">>, <<"B", "o", "b">> >>
        /\ table[c][3] = << <<"2">>, <<"C", "a", "r", "o", "l">> >>

\* the call rendered, as a table, a Grid in which no row is longer than the
\* header and some data row is shorter
ShortRowGrid(c) ==
    /\ GridRendered(c) /\ renderer[c] = "printTable"
    /\ \A r \in 1..Len(data[c].v) : Len(data[c].v[r]) <= Len(data[c].v[1])
    /\ \E r \in 2..Len(data[c].v) : Len(data[c].v[r]) < Len(data[c].v[1])

====
